---- MODULE Spec2Model ----
(***************************************************************************)
(* State-machine model of the VirtualScroll engine of                       *)
(* neptune-3d/virtual-scroll.  The repository holds three generations of    *)
(* the engine, all modelled here and selected by the variable `engine`:     *)
(*   "pull"  - src/src/getWheelPxDelta.ts:89-941, geometry pulled through   *)
(*             accessor callbacks (props object constructor);               *)
(*   "field" - src/src/getWheelPxDelta.ts:967-1598, geometry in assignable  *)
(*             fields whose setters reconcile the offset;                   *)
(*   "ctor"  - src/src/VirtualScroll.ts:34-603, assignable fields with      *)
(*             plain setters and dispose().                                 *)
(*                                                                          *)
(* JavaScript numbers are modelled as exact rationals <<n, d>> in lowest    *)
(* terms with d > 0, extended with the IEEE-754 specials <<1, 0>>           *)
(* (+Infinity), <<-1, 0>> (-Infinity) and <<0, 0>> (NaN).  Rounding error   *)
(* of binary floating point and the sign of zero are not modelled.          *)
(***************************************************************************)
EXTENDS Integers, Sequences, FiniteSets, TLC

(***************************************************************************)
(* JavaScript number semantics                                              *)
(***************************************************************************)
Abs(i) == IF i < 0 THEN -i ELSE i

Sgn(i) == IF i > 0 THEN 1 ELSE IF i < 0 THEN -1 ELSE 0

RECURSIVE Gcd(_, _)
Gcd(a, b) == IF b = 0 THEN a ELSE Gcd(b, a % b)

\* a number from a numerator and a denominator, in lowest terms
Num(n, d) ==
  IF d = 0 THEN <<Sgn(n), 0>>
  ELSE LET g == Gcd(Abs(n), Abs(d))
           s == IF d < 0 THEN -1 ELSE 1
       IN  <<(s * n) \div g, Abs(d) \div g>>

NaN == <<0, 0>>
PosInf == <<1, 0>>
NegInf == <<-1, 0>>
Zero == <<0, 1>>
One == <<1, 1>>
FromInt(i) == <<i, 1>>

IsNaN(x) == x = NaN
IsFinite(x) == x[2] # 0

Neg(x) == <<-x[1], x[2]>>

\* x + y
Add(x, y) ==
  IF IsNaN(x) \/ IsNaN(y) THEN NaN
  ELSE IF ~IsFinite(x) /\ ~IsFinite(y) THEN (IF x = y THEN x ELSE NaN)
  ELSE IF ~IsFinite(x) THEN x
  ELSE IF ~IsFinite(y) THEN y
  ELSE Num(x[1] * y[2] + y[1] * x[2], x[2] * y[2])

\* x - y
Sub(x, y) == Add(x, Neg(y))

\* x * y
Mul(x, y) ==
  IF IsNaN(x) \/ IsNaN(y) THEN NaN
  ELSE IF ~IsFinite(x) \/ ~IsFinite(y)
       THEN (IF x[1] = 0 \/ y[1] = 0 THEN NaN ELSE <<Sgn(x[1]) * Sgn(y[1]), 0>>)
  ELSE Num(x[1] * y[1], x[2] * y[2])

\* x / y  (0/0 and Infinity/Infinity are NaN, a nonzero number over 0 is +-Infinity)
Div(x, y) ==
  IF IsNaN(x) \/ IsNaN(y) THEN NaN
  ELSE IF ~IsFinite(x) /\ ~IsFinite(y) THEN NaN
  ELSE IF ~IsFinite(x) THEN <<x[1] * (IF y[1] < 0 THEN -1 ELSE 1), 0>>
  ELSE IF ~IsFinite(y) THEN Zero
  ELSE IF y[1] = 0 THEN <<Sgn(x[1]), 0>>
  ELSE Num(x[1] * y[2], x[2] * y[1])

\* x < y: every comparison with NaN is false
Lt(x, y) ==
  IF IsNaN(x) \/ IsNaN(y) THEN FALSE
  ELSE IF x = y THEN FALSE
  ELSE IF ~IsFinite(x) THEN x = NegInf
  ELSE IF ~IsFinite(y) THEN y = PosInf
  ELSE x[1] * y[2] < y[1] * x[2]

Le(x, y) == ~IsNaN(x) /\ ~IsNaN(y) /\ (x = y \/ Lt(x, y))
Gt(x, y) == Lt(y, x)
Ge(x, y) == Le(y, x)

\* x === y and x !== y: NaN is not equal to itself
StrictEq(x, y) == ~IsNaN(x) /\ ~IsNaN(y) /\ x = y
StrictNe(x, y) == ~StrictEq(x, y)

\* Math.min / Math.max: NaN if either argument is NaN
MathMin(x, y) == IF IsNaN(x) \/ IsNaN(y) THEN NaN ELSE IF Lt(y, x) THEN y ELSE x
MathMax(x, y) == IF IsNaN(x) \/ IsNaN(y) THEN NaN ELSE IF Lt(x, y) THEN y ELSE x

MathAbs(x) == <<Abs(x[1]), x[2]>>

\* Math.sign: -1, 0, 1 or NaN
MathSign(x) == IF IsNaN(x) THEN NaN ELSE FromInt(Sgn(x[1]))

\* floor of the rational n/d, d > 0, as an integer
FloorInt(n, d) == IF n >= 0 THEN n \div d ELSE -((-n + d - 1) \div d)

MathFloor(x) == IF ~IsFinite(x) THEN x ELSE FromInt(FloorInt(x[1], x[2]))
MathCeil(x) == IF ~IsFinite(x) THEN x ELSE FromInt(-FloorInt(-x[1], x[2]))
\* Math.round rounds half up: floor(x + 1/2)
MathRound(x) == IF ~IsFinite(x) THEN x ELSE FromInt(FloorInt(2 * x[1] + x[2], 2 * x[2]))

\* x % y: remainder with the sign of the dividend; NaN for y = 0 or x infinite
Rem(x, y) ==
  IF IsNaN(x) \/ IsNaN(y) \/ ~IsFinite(x) THEN NaN
  ELSE IF ~IsFinite(y) THEN x
  ELSE IF y[1] = 0 THEN NaN
  ELSE LET q == Div(MathAbs(x), MathAbs(y))
           t == FromInt(FloorInt(q[1], q[2]))
           r == Sub(MathAbs(x), Mul(t, MathAbs(y)))
       IN  IF x[1] < 0 THEN Neg(r) ELSE r

(***************************************************************************)
(* Bounds of the model and the input sets the host draws from               *)
(***************************************************************************)
\* largest magnitude of a wheel delta / track delta the host passes
MaxDelta == 1
\* wheel handler calls the host and the observer make in one behaviour
MaxWheelCalls == 2

Engines == {"pull", "field", "ctor"}
ViewportSizes == {0, 2, 3}
ContentSizes == {0, 8}
TrackSizes == {0, 16}
Deltas == (-MaxDelta) .. MaxDelta
DeltaModes == {0, 1, 2}
OffsetInputs == {FromInt(-1), FromInt(3)}
RatioInputs == {FromInt(-1), Num(1, 2), FromInt(2)}
\* <<clientCoord, viewportTrackStart>> of a track click
TrackClicks == {<<8, 0>>, <<20, 0>>, <<8, 4>>, <<0, 4>>}
ItemIndexes == {0, 2, 3, 7}
\* the focused index a paging query is asked about
FocusIndexes == {0, 1, 3}
Alignments == {"nearest", "start", "end", "center"}
\* arguments of the stand-alone getTrackClickItemValues, <<clientCoord,
\* viewportTrackStart, viewportSize, contentSize, trackSize, itemSize,
\* itemCount>>: the five calls of its tests, then a track of no length and
\* a click past the end of a short list
TrackClickItemInputs ==
  { <<5, 0, 100, 500, 100, 20, 25>>,
    <<50, 0, 100, 500, 100, 20, 25>>,
    <<95, 0, 100, 500, 100, 20, 25>>,
    <<50, 0, 200, 150, 200, 30, 5>>,
    <<8, 0, 2, 8, 0, 2, 4>>,
    <<20, 4, 3, 8, 16, 2, 4>> }
\* normalized deltas a velocity step is asked for: none, one unit, a
\* fraction below every minimum, a value between the px bounds, a large one
StepInputs == {Zero, One, FromInt(-1), Num(1, 2), Num(-3, 2), FromInt(5), FromInt(-5)}

\* the configuration the host passes (props / setters); the defaults of the
\* source are minThumbSize 12, px steps 10..60, item steps 1..3, decay 0.7
Props ==
  [ minThumbSize        |-> FromInt(12),
    minVelocityPxStep   |-> FromInt(1),
    maxVelocityPxStep   |-> FromInt(2),
    minVelocityItemStep |-> FromInt(2),
    maxVelocityItemStep |-> FromInt(3),
    itemSize            |-> 2 ]
Decays == {Num(1, 2)}
\* what the host says an item measures: <<>> when it says nothing (no
\* getItemSize callback, no constructor argument), else <<size>>
ItemSizes == {<<>>, <<0>>, <<Props.itemSize>>}

\* _wheelAnimationFrame === null
NoFrame == 0

VARIABLES
  engine,               \* which generation of the class is instantiated
  getItemSize,          \* the item size the host supplies, <<>> if none
  viewportSize,         \* viewportSize (field, or what getViewportSize returns)
  contentSize,          \* contentSize
  trackSize,            \* trackSize
  inertiaDecay,         \* _inertiaDecay
  scrollOffset,         \* _scrollOffset
  pxVelocity,           \* _pxVelocity (_wheelVelocity in the "ctor" engine)
  itemVelocity,         \* _itemVelocity
  wheelAnimationFrame,  \* _wheelAnimationFrame: NoFrame or a handle
  pending,              \* callbacks requestAnimationFrame holds: [h, kind]
  wheelCalls,           \* wheel handler calls made so far
  lastOp,               \* the operation that produced this state
  fired,                \* whether that operation invoked the observer
  changed,              \* whether that operation changed scrollOffset
  returned              \* <<value>> that operation returned, <<>> if void

geometry == <<viewportSize, contentSize, trackSize>>
inertia == <<pxVelocity, itemVelocity, wheelAnimationFrame, pending, wheelCalls>>
vars == <<engine, getItemSize, viewportSize, contentSize, trackSize, inertiaDecay,
          scrollOffset, pxVelocity, itemVelocity, wheelAnimationFrame, pending,
          wheelCalls, lastOp, fired, changed, returned>>

(***************************************************************************)
(* Derived geometry (identical in the three engines)                        *)
(***************************************************************************)
\* this._getItemSize?.() ?? 1; constructor(itemSize = 1)
itemSize == IF getItemSize = <<>> THEN One ELSE FromInt(getItemSize[1])

\* the host keeps itemCount consistent with contentSize and the size of its
\* items (the size it reports when that is positive)
itemCount ==
  FromInt(contentSize \div (IF getItemSize = <<>> THEN 1
                            ELSE IF getItemSize[1] <= 0 THEN Props.itemSize
                            ELSE getItemSize[1]))

scrollSize(V, C) == MathMax(FromInt(C), FromInt(V))

maxScrollOffset(V, C) == MathMax(Zero, Sub(FromInt(C), FromInt(V)))

isScrollingNeeded(V, C) == C > V

scrollRatio(o, V, C) ==
  IF ~isScrollingNeeded(V, C) THEN Zero ELSE Div(o, maxScrollOffset(V, C))

thumbSize(V, C, T) ==
  IF C <= 0 \/ T = 0 THEN Zero
  ELSE LET rawSize == Mul(MathMin(One, Div(FromInt(V), FromInt(C))), FromInt(T))
       IN  MathMax(rawSize, Props.minThumbSize)

thumbTravelSize(V, C, T) == MathMax(Zero, Sub(FromInt(T), thumbSize(V, C, T)))

\* a thumb placed by the share of the content above the viewport
thumbOffsetOfContent(o, V, C, T) ==
  IF ~isScrollingNeeded(V, C) THEN Zero
  ELSE Mul(Div(o, FromInt(C)), thumbTravelSize(V, C, T))

thumbOffset(o, V, C, T) ==
  IF ~isScrollingNeeded(V, C) THEN Zero
  ELSE Mul(scrollRatio(o, V, C), thumbTravelSize(V, C, T))

trackToScrollFactor(V, C, T) ==
  IF ~isScrollingNeeded(V, C) THEN Zero
  ELSE Div(thumbTravelSize(V, C, T), maxScrollOffset(V, C))

\* Math.max(0, Math.min(x, hi)) as the handlers write it
clampOffset(x, hi) == MathMax(Zero, MathMin(x, hi))

(***************************************************************************)
(* Committing an offset and notifying the observer                          *)
(***************************************************************************)
\* "pull" engine: setScrollOffset notifies only when the value differs (!==)
setScrollOffset(old, new) ==
  IF StrictNe(new, old) THEN [scrollOffset |-> new, fired |-> TRUE]
  ELSE [scrollOffset |-> old, fired |-> FALSE]

\* "field" and "ctor" engines: this._scrollOffset = x; this._onScroll?.()
assignAndNotify(new) == [scrollOffset |-> new, fired |-> TRUE]

\* a handler that returns before touching anything
untouched(old) == [scrollOffset |-> old, fired |-> FALSE]

\* this._scrollOffset = x in a setter, which never calls the observer
assignSilently(new) == [scrollOffset |-> new, fired |-> FALSE]

(***************************************************************************)
(* Interaction handlers                                                     *)
(***************************************************************************)
\* the offset handleDelta computes once scrolling is needed
deltaOffset(o, d, V, C, T) ==
  clampOffset(Add(o, Div(FromInt(d), trackToScrollFactor(V, C, T))),
              maxScrollOffset(V, C))

handleDelta(o, d, V, C, T) ==
  IF ~isScrollingNeeded(V, C) THEN untouched(o)
  ELSE setScrollOffset(o, deltaOffset(o, d, V, C, T))

handleDeltaField(o, d, V, C, T) ==
  IF ~isScrollingNeeded(V, C) THEN untouched(o)
  ELSE assignAndNotify(deltaOffset(o, d, V, C, T))

handleDeltaCtor(o, d, V, C, T) ==
  IF C <= V THEN assignAndNotify(Zero)
  ELSE assignAndNotify(deltaOffset(o, d, V, C, T))

\* a click that puts the start of the thumb, not its middle, under the pointer
trackClickOffsetUncentred(clientCoord, viewportTrackStart, V, C, T) ==
  LET clickPos == FromInt(clientCoord - viewportTrackStart)
      clampedThumbOffset == MathMax(Zero, MathMin(clickPos, thumbTravelSize(V, C, T)))
  IN  IF Gt(thumbTravelSize(V, C, T), Zero)
      THEN Mul(Div(clampedThumbOffset, thumbTravelSize(V, C, T)), maxScrollOffset(V, C))
      ELSE Zero

\* the offset handleTrackClick computes once scrolling is needed
trackClickOffset(clientCoord, viewportTrackStart, V, C, T) ==
  LET clickPos == FromInt(clientCoord - viewportTrackStart)
      desiredThumbOffset == Sub(clickPos, Div(thumbSize(V, C, T), FromInt(2)))
      clampedThumbOffset ==
        MathMax(Zero, MathMin(desiredThumbOffset, thumbTravelSize(V, C, T)))
  IN  IF Gt(thumbTravelSize(V, C, T), Zero)
      THEN Mul(Div(clampedThumbOffset, thumbTravelSize(V, C, T)), maxScrollOffset(V, C))
      ELSE Zero

handleTrackClick(o, clientCoord, viewportTrackStart, V, C, T) ==
  IF ~isScrollingNeeded(V, C) THEN untouched(o)
  ELSE setScrollOffset(o, trackClickOffset(clientCoord, viewportTrackStart, V, C, T))

handleTrackClickField(o, clientCoord, viewportTrackStart, V, C, T) ==
  IF ~isScrollingNeeded(V, C) THEN untouched(o)
  ELSE assignAndNotify(trackClickOffset(clientCoord, viewportTrackStart, V, C, T))

handleTrackClickCtor(o, clientCoord, viewportTrackStart, V, C, T) ==
  IF C <= V THEN assignAndNotify(Zero)
  ELSE assignAndNotify(trackClickOffset(clientCoord, viewportTrackStart, V, C, T))

\* a page jump that is not clamped into the scrollable range
getPageScrollOffsetUnclamped(o, direction, V, C) ==
  IF direction = "down" THEN Add(o, FromInt(V)) ELSE Sub(o, FromInt(V))

getPageScrollOffset(o, direction, V, C) ==
  LET scrollExtent == MathMax(FromInt(C), FromInt(V))
      maxOffset == Sub(scrollExtent, FromInt(V))
      newScrollOffset ==
        IF direction = "down" THEN Add(o, FromInt(V)) ELSE Sub(o, FromInt(V))
  IN  MathMax(Zero, MathMin(maxOffset, newScrollOffset))

handlePageScroll(o, direction, V, C) ==
  IF ~isScrollingNeeded(V, C) THEN untouched(o)
  ELSE setScrollOffset(o, getPageScrollOffset(o, direction, V, C))

handlePageScrollField(o, direction, V, C) ==
  IF ~isScrollingNeeded(V, C) THEN untouched(o)
  ELSE assignAndNotify(getPageScrollOffset(o, direction, V, C))

handlePageScrollCtor(o, direction, V, C) ==
  IF C <= V THEN assignAndNotify(Zero)
  ELSE assignAndNotify(getPageScrollOffset(o, direction, V, C))

(***************************************************************************)
(* The stand-alone functions behind getTrackClickItemValues                 *)
(***************************************************************************)
getMaxScrollOffset(V, C) == MathMax(Zero, Sub(C, V))

getScrollProgressRatio(V, C, o) ==
  IF Le(C, V) THEN Zero ELSE Div(o, getMaxScrollOffset(V, C))

getThumbSize(V, C, T) ==
  IF Le(C, Zero) THEN Zero ELSE Mul(MathMin(One, Div(V, C)), T)

getThumbTravelSize(V, C, T) == MathMax(Zero, Sub(T, getThumbSize(V, C, T)))

getThumbOffset(V, C, o, T) ==
  IF Le(C, V) THEN Zero
  ELSE Mul(getScrollProgressRatio(V, C, o), getThumbTravelSize(V, C, T))

getTrackClickItemValues(clientCoord, viewportTrackStart, V, C, T, size, count) ==
  LET clickPos == Sub(clientCoord, viewportTrackStart)
      desiredThumbOffset == Sub(clickPos, Div(getThumbSize(V, C, T), FromInt(2)))
      travel == getThumbTravelSize(V, C, T)
      clampedThumbOffset == MathMax(Zero, MathMin(desiredThumbOffset, travel))
      continuous == Mul(Div(clampedThumbOffset, travel), getMaxScrollOffset(V, C))
      maxIndex == Sub(count, MathCeil(Div(V, size)))
      snappedIndex == MathMax(Zero, MathMin(maxIndex, MathRound(Div(continuous, size))))
      snapped == Mul(snappedIndex, size)
  IN  [scrollOffset |-> snapped, thumbOffset |-> getThumbOffset(V, C, snapped, T)]

(***************************************************************************)
(* Visibility and paging queries (only the "pull" engine has them)          *)
(***************************************************************************)
\* a first index rounded down to the item the viewport top cuts
getFirstFullyVisibleIndexFloored(o, V) ==
  LET viewportTop == o
      viewportBottom == Add(viewportTop, FromInt(V))
      firstIndex == MathFloor(Div(viewportTop, itemSize))
      rowTop == Mul(firstIndex, itemSize)
      rowBottom == Add(rowTop, itemSize)
  IN  IF Le(rowBottom, viewportBottom) THEN firstIndex ELSE Add(firstIndex, One)

getFirstFullyVisibleIndex(o, V) ==
  LET viewportTop == o
      viewportBottom == Add(viewportTop, FromInt(V))
      firstIndex == MathCeil(Div(viewportTop, itemSize))
      rowTop == Mul(firstIndex, itemSize)
      rowBottom == Add(rowTop, itemSize)
  IN  IF Le(rowBottom, viewportBottom) THEN firstIndex ELSE Add(firstIndex, One)

getLastFullyVisibleIndex(o, V) ==
  LET viewportTop == o
      viewportBottom == Add(viewportTop, FromInt(V))
      lastIndex == MathFloor(Div(Sub(viewportBottom, One), itemSize))
      rowTop == Mul(lastIndex, itemSize)
      rowBottom == Add(rowTop, itemSize)
  IN  IF Ge(rowTop, viewportTop) /\ Le(rowBottom, viewportBottom)
      THEN lastIndex ELSE Sub(lastIndex, One)

isItemVisible(o, V, itemIndex, fully) ==
  LET rowTop == Mul(FromInt(itemIndex), itemSize)
      rowBottom == Add(rowTop, itemSize)
      viewportTop == o
      viewportBottom == Add(viewportTop, FromInt(V))
  IN  IF fully
      THEN Ge(rowTop, viewportTop) /\ Le(rowBottom, viewportBottom)
      ELSE Gt(rowBottom, viewportTop) /\ Lt(rowTop, viewportBottom)

\* a page up by a whole page, the old top item leaving the viewport
getNextPageUpIndexWholePage(o, V, currentFocusedIndex) ==
  LET firstVisible == getFirstFullyVisibleIndex(o, V)
      lastVisible == getLastFullyVisibleIndex(o, V)
      visibleCount == MathMax(One, Add(Sub(lastVisible, firstVisible), One))
  IN  IF Gt(FromInt(currentFocusedIndex), firstVisible) THEN firstVisible
      ELSE MathMax(Zero, Sub(firstVisible, visibleCount))

getNextPageUpIndex(o, V, currentFocusedIndex) ==
  LET firstVisible == getFirstFullyVisibleIndex(o, V)
      lastVisible == getLastFullyVisibleIndex(o, V)
      visibleCount == MathMax(One, Add(Sub(lastVisible, firstVisible), One))
  IN  IF Gt(FromInt(currentFocusedIndex), firstVisible) THEN firstVisible
      ELSE MathMax(Zero, Add(Sub(firstVisible, visibleCount), One))

getNextPageDownIndex(o, V, count, currentFocusedIndex) ==
  LET firstVisible == getFirstFullyVisibleIndex(o, V)
      lastVisible == getLastFullyVisibleIndex(o, V)
      visibleCount == MathMax(One, Add(Sub(lastVisible, firstVisible), One))
  IN  IF Lt(FromInt(currentFocusedIndex), lastVisible) THEN lastVisible
      ELSE MathMin(Sub(count, One), Sub(Add(lastVisible, visibleCount), One))

\* an item is brought into view without clamping the offset it asks for
scrollItemIntoViewUnclamped(o, itemIndex, align, V, C) ==
  IF ~isScrollingNeeded(V, C) THEN untouched(o)
  ELSE
    LET rowTop == Mul(FromInt(itemIndex), itemSize)
        rowBottom == Add(rowTop, itemSize)
        viewportTop == o
        viewportBottom == Add(viewportTop, FromInt(V))
        newOffset ==
          CASE align = "start" -> rowTop
            [] align = "end" -> Sub(rowBottom, FromInt(V))
            [] align = "center" ->
                 Sub(rowTop, Div(Sub(FromInt(V), itemSize), FromInt(2)))
            [] OTHER ->
                 IF Lt(rowTop, viewportTop) THEN rowTop
                 ELSE IF Gt(rowBottom, viewportBottom) THEN Sub(rowBottom, FromInt(V))
                 ELSE o
    IN  setScrollOffset(o, newOffset)

\* a "nearest" that snaps up to an item above the viewport and leaves an
\* item below it where it is
scrollItemIntoViewNearestAbove(o, itemIndex, align, V, C) ==
  IF ~isScrollingNeeded(V, C) THEN untouched(o)
  ELSE
    LET rowTop == Mul(FromInt(itemIndex), itemSize)
        rowBottom == Add(rowTop, itemSize)
        newOffset ==
          CASE align = "start" -> rowTop
            [] align = "end" -> Sub(rowBottom, FromInt(V))
            [] align = "center" ->
                 Sub(rowTop, Div(Sub(FromInt(V), itemSize), FromInt(2)))
            [] OTHER -> IF Lt(rowTop, o) THEN rowTop ELSE o
    IN  setScrollOffset(o, MathMax(Zero, MathMin(newOffset, maxScrollOffset(V, C))))

\* only the "pull" engine has scrollItemIntoView
scrollItemIntoView(o, itemIndex, align, V, C) ==
  IF ~isScrollingNeeded(V, C) THEN untouched(o)
  ELSE
    LET rowTop == Mul(FromInt(itemIndex), itemSize)
        rowBottom == Add(rowTop, itemSize)
        viewportTop == o
        viewportBottom == Add(viewportTop, FromInt(V))
        newOffset ==
          CASE align = "start" -> rowTop
            [] align = "end" -> Sub(rowBottom, FromInt(V))
            [] align = "center" ->
                 Sub(rowTop, Div(Sub(FromInt(V), itemSize), FromInt(2)))
            [] OTHER ->
                 IF Lt(rowTop, viewportTop) THEN rowTop
                 ELSE IF Gt(rowBottom, viewportBottom) THEN Sub(rowBottom, FromInt(V))
                 ELSE o
    IN  setScrollOffset(o, MathMax(Zero, MathMin(newOffset, maxScrollOffset(V, C))))

(***************************************************************************)
(* Assignments: scrollOffset, scrollRatio / scrollProgressRatio, sizes      *)
(***************************************************************************)
\* set scrollOffset(value): stored as given
assignScrollOffset(value) == assignSilently(value)

\* a ratio assignment that trusts the ratio to lie within [0, 1]
assignScrollRatioUnclamped(ratio, V, C) ==
  IF ~isScrollingNeeded(V, C) THEN assignSilently(Zero)
  ELSE assignSilently(Mul(ratio, maxScrollOffset(V, C)))

\* set scrollRatio(ratio) ("pull"), set scrollProgressRatio(ratio) (others)
assignScrollRatio(ratio, V, C) ==
  IF ~isScrollingNeeded(V, C) THEN assignSilently(Zero)
  ELSE LET clampedRatio == MathMax(Zero, MathMin(ratio, One))
       IN  assignSilently(Mul(clampedRatio, maxScrollOffset(V, C)))

\* a reconciliation that reports the new offset to the observer
updateMeasurementsNotifying(oldRatio, V, C) ==
  IF ~isScrollingNeeded(V, C) THEN assignAndNotify(Zero)
  ELSE assignAndNotify(Mul(MathMax(Zero, MathMin(oldRatio, One)), maxScrollOffset(V, C)))

\* updateMeasurements(oldRatio), evaluated after the new size is stored
updateMeasurements(oldRatio, V, C) ==
  IF ~isScrollingNeeded(V, C) THEN assignSilently(Zero)
  ELSE LET clamped == MathMax(Zero, MathMin(oldRatio, One))
       IN  assignSilently(Mul(clamped, maxScrollOffset(V, C)))

\* the offset after viewportSize / contentSize is assigned: the "field" engine
\* reads the ratio under the old sizes (oldV, oldC) and reconciles under the
\* new ones; the "ctor" engine stores the size only; in the "pull" engine the
\* host's callback simply returns another value
\* a setter that reads the ratio only after it has stored the new size
sizeSetterFieldLate(o, oldV, oldC, V, C) == updateMeasurements(scrollRatio(o, V, C), V, C)

sizeSetterField(o, oldV, oldC, V, C) == updateMeasurements(scrollRatio(o, oldV, oldC), V, C)

sizeSetterCtor(o, oldV, oldC, V, C) == untouched(o)

sizeChangePull(o, oldV, oldC, V, C) == untouched(o)

\* a trackSize setter that reconciles like the other two, with no ratio kept
trackSizeSetterReconciling(o, V, C) == updateMeasurements(Zero, V, C)

\* set trackSize(value): this._trackSize = value, in every engine
trackSizeSetter(o, V, C) == untouched(o)

(***************************************************************************)
(* Wheel input: normalisation and velocity steps                            *)
(***************************************************************************)
getWheelPxDelta(delta, deltaMode, V) ==
  IF deltaMode = 1 THEN Mul(FromInt(delta), itemSize)
  ELSE IF deltaMode = 2 THEN Mul(FromInt(delta), FromInt(V))
  ELSE FromInt(delta)

getVelocityPxStep(normalizedDeltaPx) ==
  LET sign == MathSign(normalizedDeltaPx)
  IN  IF sign = Zero THEN Zero
      ELSE IF Le(MathAbs(normalizedDeltaPx), Props.minVelocityPxStep)
           THEN Mul(sign, Props.minVelocityPxStep)
      ELSE Mul(sign, MathMin(MathMax(MathAbs(normalizedDeltaPx), Props.minVelocityPxStep),
                             Props.maxVelocityPxStep))

getWheelItemDelta(delta, deltaMode, V) ==
  IF deltaMode = 1 THEN FromInt(delta)
  ELSE IF deltaMode = 2 THEN Mul(FromInt(delta), Div(FromInt(V), itemSize))
  ELSE MathSign(FromInt(delta))

\* an item step with no special case for one unit
getVelocityItemStepClamped(normalizedDelta) ==
  LET sign == MathSign(normalizedDelta)
  IN  IF sign = Zero THEN Zero
      ELSE Mul(sign, MathMin(MathMax(MathAbs(normalizedDelta), Props.minVelocityItemStep),
                             Props.maxVelocityItemStep))

getVelocityItemStep(normalizedDelta) ==
  LET sign == MathSign(normalizedDelta)
  IN  IF sign = Zero THEN Zero
      ELSE IF MathAbs(normalizedDelta) = One THEN Mul(sign, One)
      ELSE Mul(sign, MathMin(MathMax(MathAbs(normalizedDelta), Props.minVelocityItemStep),
                             Props.maxVelocityItemStep))

(***************************************************************************)
(* One step of each velocity domain                                         *)
(***************************************************************************)
\* a px step that moves by the velocity it is about to store
getVelocityPxValuesDecayedFirst(o, velocityPx, V, C, decay) ==
  LET scrollExtent == MathMax(FromInt(C), FromInt(V))
      maxOffset == Sub(scrollExtent, FromInt(V))
      newScrollOffset == MathMax(Zero, MathMin(maxOffset, Add(o, Mul(velocityPx, decay))))
  IN  [scrollOffset |-> newScrollOffset, velocity |-> Mul(velocityPx, decay)]

getVelocityPxValues(o, velocityPx, V, C, decay) ==
  LET scrollExtent == MathMax(FromInt(C), FromInt(V))
      maxOffset == Sub(scrollExtent, FromInt(V))
      newScrollOffset == MathMax(Zero, MathMin(maxOffset, Add(o, velocityPx)))
  IN  [scrollOffset |-> newScrollOffset, velocity |-> Mul(velocityPx, decay)]

\* an item step that snaps the leading edge in both directions
getVelocityItemValuesLeadingEdge(o, velocity, V, C, count, decay) ==
  LET scrollExtent == MathMax(FromInt(C), FromInt(V))
      stepItems == MathRound(velocity)
      maxIndex == Sub(count, MathCeil(Div(FromInt(V), itemSize)))
      baseIndex == IF Gt(stepItems, Zero) THEN MathFloor(Div(o, itemSize))
                   ELSE MathCeil(Div(o, itemSize))
      newIndex == MathMax(Zero, MathMin(maxIndex, Add(baseIndex, stepItems)))
      moved == IF stepItems = Zero THEN o ELSE Mul(newIndex, itemSize)
      maxOffset == Sub(scrollExtent, FromInt(V))
  IN  [scrollOffset |-> MathMax(Zero, MathMin(maxOffset, moved)),
       velocity |-> Mul(velocity, decay)]

getVelocityItemValues(o, velocity, V, C, count, decay) ==
  LET scrollExtent == MathMax(FromInt(C), FromInt(V))
      remainder == Rem(FromInt(V), itemSize)
      downOffset == IF remainder = Zero THEN Zero ELSE Sub(itemSize, remainder)
      stepItems == MathRound(velocity)
      visibleItemsFloat == Div(FromInt(V), itemSize)
      maxIndex == Sub(count, MathCeil(visibleItemsFloat))
      moved ==
        IF Gt(stepItems, Zero)
        THEN LET baseIndex == MathFloor(Div(Sub(o, downOffset), itemSize))
                 newIndex == MathMax(Zero, MathMin(maxIndex,
                                                   MathFloor(Add(baseIndex, stepItems))))
             IN  Add(Mul(newIndex, itemSize), downOffset)
        ELSE IF Lt(stepItems, Zero)
        THEN LET baseIndex == MathCeil(Div(o, itemSize))
                 newIndex == MathMax(Zero, MathMin(maxIndex,
                                                   MathCeil(Add(baseIndex, stepItems))))
             IN  Mul(newIndex, itemSize)
        ELSE o
      maxOffset == Sub(scrollExtent, FromInt(V))
  IN  [scrollOffset |-> MathMax(Zero, MathMin(maxOffset, moved)),
       velocity |-> Mul(velocity, decay)]

\* the stop threshold startWheelInertia is called with (0.5 px, 0.01 items)
threshold(kind) == IF kind = "px" THEN Num(1, 2) ELSE Num(1, 100)

(***************************************************************************)
(* The frame scheduler (requestAnimationFrame / cancelAnimationFrame) and   *)
(* the inertia state I = [px, item, frame, pending, calls]                  *)
(***************************************************************************)
\* requestAnimationFrame returns a handle no pending callback has
newHandle(P) ==
  CHOOSE h \in 1 .. (Cardinality(P) + 1) :
    /\ \A cb \in P : cb.h # h
    /\ \A k \in 1 .. (h - 1) : \E cb \in P : cb.h = k

cancelAnimationFrame(P, h) == {cb \in P : cb.h # h}

\* this._wheelAnimationFrame = requestAnimationFrame(step)
scheduleStep(I, kind) ==
  LET h == newHandle(I.pending)
  IN  [I EXCEPT !.frame = h, !.pending = I.pending \cup {[h |-> h, kind |-> kind]}]

\* startWheelInertia: cancel the stored handle, then schedule
startWheelInertia(I, kind) ==
  LET C1 == IF I.frame # NoFrame
            THEN [I EXCEPT !.pending = cancelAnimationFrame(I.pending, I.frame)]
            ELSE I
  IN  scheduleStep(C1, kind)

\* a wheel handler that stores the step instead of adding it
handleWheelPxReplacing(I, delta, deltaMode, V) ==
  LET step == getVelocityPxStep(getWheelPxDelta(delta, deltaMode, V))
      A == [I EXCEPT !.px = step, !.calls = I.calls + 1]
  IN  IF A.frame = NoFrame THEN startWheelInertia(A, "px") ELSE A

handleWheelPx(I, delta, deltaMode, V) ==
  LET step == getVelocityPxStep(getWheelPxDelta(delta, deltaMode, V))
      A == [I EXCEPT !.px = Add(I.px, step), !.calls = I.calls + 1]
  IN  IF A.frame = NoFrame THEN startWheelInertia(A, "px") ELSE A

handleWheelItems(I, delta, deltaMode, V) ==
  LET step == getVelocityItemStep(getWheelItemDelta(delta, deltaMode, V))
      A == [I EXCEPT !.item = Add(I.item, step), !.calls = I.calls + 1]
  IN  IF A.frame = NoFrame THEN startWheelInertia(A, "item") ELSE A

\* a stop that forgets the item accumulator
stopInertiaPxOnly(I) ==
  LET C1 == IF I.frame # NoFrame
            THEN [I EXCEPT !.pending = cancelAnimationFrame(I.pending, I.frame),
                           !.frame = NoFrame]
            ELSE I
  IN  [C1 EXCEPT !.px = Zero]

\* stopInertia ("pull", "field") and dispose ("ctor")
stopInertia(I) ==
  LET C1 == IF I.frame # NoFrame
            THEN [I EXCEPT !.pending = cancelAnimationFrame(I.pending, I.frame),
                           !.frame = NoFrame]
            ELSE I
  IN  [C1 EXCEPT !.px = Zero, !.item = Zero]

(***************************************************************************)
(* The observer may call back into the engine from inside a frame callback  *)
(***************************************************************************)
ReentrantCalls ==
  {[op |-> "stopInertia", delta |-> 0, deltaMode |-> 0],
   [op |-> "handleWheelPx", delta |-> MaxDelta, deltaMode |-> 0]}

\* what an observer does when it is invoked: nothing, stop the inertia, or
\* stop it and feed a wheel event
Reactions ==
  {<<>>,
   <<[op |-> "stopInertia", delta |-> 0, deltaMode |-> 0]>>,
   <<[op |-> "stopInertia", delta |-> 0, deltaMode |-> 0],
     [op |-> "handleWheelPx", delta |-> MaxDelta, deltaMode |-> 0]>>}

applyCall(I, c, V) ==
  CASE c.op = "stopInertia" -> stopInertia(I)
    [] c.op = "handleWheelPx" -> handleWheelPx(I, c.delta, c.deltaMode, V)
    [] OTHER -> handleWheelItems(I, c.delta, c.deltaMode, V)

RECURSIVE applyCalls(_, _, _)
applyCalls(I, calls, V) ==
  IF calls = <<>> THEN I
  ELSE applyCalls(applyCall(I, Head(calls), V), Tail(calls), V)

\* the observer runs `reaction` only when it is invoked
observe(I, wasFired, reaction, V) == IF wasFired THEN applyCalls(I, reaction, V) ELSE I

(***************************************************************************)
(* The frame callback `step` of startWheelInertia                           *)
(***************************************************************************)
velocityOf(I, kind) == IF kind = "px" THEN I.px ELSE I.item

withVelocity(I, kind, v) == IF kind = "px" THEN [I EXCEPT !.px = v] ELSE [I EXCEPT !.item = v]

getValues(kind, o, v, V, C, count, decay) ==
  IF kind = "px" THEN getVelocityPxValues(o, v, V, C, decay)
  ELSE getVelocityItemValues(o, v, V, C, count, decay)

\* the velocity is below the threshold: it is zeroed, the handle cleared
halt(I, kind, o) ==
  [inertia |-> [withVelocity(I, kind, Zero) EXCEPT !.frame = NoFrame],
   scrollOffset |-> o, fired |-> FALSE]

\* after the offset is committed (and the observer has run) the next frame
\* is requested; I already holds the decayed velocity
resume(I, kind, committed, reaction, V) ==
  [inertia |-> scheduleStep(observe(I, committed.fired, reaction, V), kind),
   scrollOffset |-> committed.scrollOffset, fired |-> committed.fired]

\* "pull" engine: velocity stored, offset committed through setScrollOffset
advance(I, kind, o, values, reaction, V) ==
  resume(withVelocity(I, kind, values.velocity), kind,
         setScrollOffset(o, values.scrollOffset), reaction, V)

\* "field" and "ctor" engines: offset and velocity assigned, the observer
\* always invoked
advanceNotifyAlways(I, kind, values, reaction, V) ==
  resume(withVelocity(I, kind, values.velocity), kind,
         assignAndNotify(values.scrollOffset), reaction, V)

step(I, kind, o, V, C, count, decay, reaction) ==
  IF Lt(MathAbs(velocityOf(I, kind)), threshold(kind))
  THEN halt(I, kind, o)
  ELSE advance(I, kind, o,
               getValues(kind, o, velocityOf(I, kind), V, C, count, decay),
               reaction, V)

stepNotifyAlways(I, kind, o, V, C, count, decay, reaction) ==
  IF Lt(MathAbs(velocityOf(I, kind)), threshold(kind))
  THEN halt(I, kind, o)
  ELSE advanceNotifyAlways(I, kind,
                           getValues(kind, o, velocityOf(I, kind), V, C, count, decay),
                           reaction, V)

(***************************************************************************)
(* The state machine                                                        *)
(***************************************************************************)
Inertia == [px |-> pxVelocity, item |-> itemVelocity, frame |-> wheelAnimationFrame,
            pending |-> pending, calls |-> wheelCalls]

SetInertia(I) ==
  /\ pxVelocity' = I.px
  /\ itemVelocity' = I.item
  /\ wheelAnimationFrame' = I.frame
  /\ pending' = I.pending
  /\ wheelCalls' = I.calls

\* record the operation, its effect on the offset and whether it notified
Commit(op, r) ==
  /\ scrollOffset' = r.scrollOffset
  /\ fired' = r.fired
  /\ lastOp' = op
  /\ changed' = (r.scrollOffset # scrollOffset)
  /\ returned' = <<>>

\* the state after construction, the host's item size drawn from `sizes`
Construct(sizes) ==
  /\ engine \in Engines
  /\ getItemSize \in sizes
  /\ IF engine = "pull"
     THEN /\ viewportSize \in ViewportSizes
          /\ contentSize \in ContentSizes
          /\ trackSize \in TrackSizes
     ELSE /\ viewportSize = 0
          /\ contentSize = 0
          /\ trackSize = 0
  /\ inertiaDecay \in Decays
  /\ scrollOffset = Zero
  /\ pxVelocity = Zero
  /\ itemVelocity = Zero
  /\ wheelAnimationFrame = NoFrame
  /\ pending = {}
  /\ wheelCalls = 0
  /\ lastOp = "init"
  /\ fired = FALSE
  /\ changed = FALSE
  /\ returned = <<>>

Init == Construct({<<Props.itemSize>>})

sizeChange(o, oldV, oldC, V, C) ==
  CASE engine = "field" -> sizeSetterField(o, oldV, oldC, V, C)
    [] engine = "ctor" -> sizeSetterCtor(o, oldV, oldC, V, C)
    [] OTHER -> sizeChangePull(o, oldV, oldC, V, C)

SetViewportSize(v) ==
  /\ viewportSize' = v
  /\ Commit("setViewportSize",
            sizeChange(scrollOffset, viewportSize, contentSize, v, contentSize))
  /\ UNCHANGED <<engine, getItemSize, contentSize, trackSize, inertiaDecay, inertia>>

SetContentSize(c) ==
  /\ contentSize' = c
  /\ Commit("setContentSize",
            sizeChange(scrollOffset, viewportSize, contentSize, viewportSize, c))
  /\ UNCHANGED <<engine, getItemSize, viewportSize, trackSize, inertiaDecay, inertia>>

SetTrackSize(t) ==
  /\ trackSize' = t
  /\ Commit("setTrackSize", trackSizeSetter(scrollOffset, viewportSize, contentSize))
  /\ UNCHANGED <<engine, getItemSize, viewportSize, contentSize, inertiaDecay, inertia>>

SetScrollOffset(value) ==
  /\ Commit("setScrollOffset", assignScrollOffset(value))
  /\ UNCHANGED <<engine, getItemSize, geometry, inertiaDecay, inertia>>

SetScrollRatio(ratio) ==
  /\ Commit("setScrollRatio", assignScrollRatio(ratio, viewportSize, contentSize))
  /\ UNCHANGED <<engine, getItemSize, geometry, inertiaDecay, inertia>>

HandleDelta(d) ==
  /\ Commit("handleDelta",
            CASE engine = "pull" ->
                   handleDelta(scrollOffset, d, viewportSize, contentSize, trackSize)
              [] engine = "field" ->
                   handleDeltaField(scrollOffset, d, viewportSize, contentSize, trackSize)
              [] OTHER ->
                   handleDeltaCtor(scrollOffset, d, viewportSize, contentSize, trackSize))
  /\ UNCHANGED <<engine, getItemSize, geometry, inertiaDecay, inertia>>

\* a track click that is a direct jump and halts the momentum first
HandleTrackClickStopping(clientCoord, viewportTrackStart) ==
  /\ SetInertia(stopInertia(Inertia))
  /\ Commit("handleTrackClick",
            handleTrackClick(scrollOffset, clientCoord, viewportTrackStart,
                             viewportSize, contentSize, trackSize))
  /\ UNCHANGED <<engine, getItemSize, geometry, inertiaDecay>>

HandleTrackClick(clientCoord, viewportTrackStart) ==
  /\ Commit("handleTrackClick",
            CASE engine = "pull" ->
                   handleTrackClick(scrollOffset, clientCoord, viewportTrackStart,
                                    viewportSize, contentSize, trackSize)
              [] engine = "field" ->
                   handleTrackClickField(scrollOffset, clientCoord, viewportTrackStart,
                                         viewportSize, contentSize, trackSize)
              [] OTHER ->
                   handleTrackClickCtor(scrollOffset, clientCoord, viewportTrackStart,
                                        viewportSize, contentSize, trackSize))
  /\ UNCHANGED <<engine, getItemSize, geometry, inertiaDecay, inertia>>

HandlePageScroll(direction) ==
  /\ Commit("handlePageScroll",
            CASE engine = "pull" ->
                   handlePageScroll(scrollOffset, direction, viewportSize, contentSize)
              [] engine = "field" ->
                   handlePageScrollField(scrollOffset, direction, viewportSize, contentSize)
              [] OTHER ->
                   handlePageScrollCtor(scrollOffset, direction, viewportSize, contentSize))
  /\ UNCHANGED <<engine, getItemSize, geometry, inertiaDecay, inertia>>

ScrollItemIntoView(itemIndex, align) ==
  /\ engine = "pull"
  /\ Commit("scrollItemIntoView",
            scrollItemIntoView(scrollOffset, itemIndex, align, viewportSize, contentSize))
  /\ UNCHANGED <<engine, getItemSize, geometry, inertiaDecay, inertia>>

HandleWheelPx(delta, deltaMode) ==
  /\ wheelCalls < MaxWheelCalls
  /\ SetInertia(handleWheelPx(Inertia, delta, deltaMode, viewportSize))
  /\ Commit("handleWheelPx", untouched(scrollOffset))
  /\ UNCHANGED <<engine, getItemSize, geometry, inertiaDecay>>

HandleWheelItems(delta, deltaMode) ==
  /\ wheelCalls < MaxWheelCalls
  /\ SetInertia(handleWheelItems(Inertia, delta, deltaMode, viewportSize))
  /\ Commit("handleWheelItems", untouched(scrollOffset))
  /\ UNCHANGED <<engine, getItemSize, geometry, inertiaDecay>>

StopInertia ==
  /\ SetInertia(stopInertia(Inertia))
  /\ Commit("stopInertia", untouched(scrollOffset))
  /\ UNCHANGED <<engine, getItemSize, geometry, inertiaDecay>>

\* a query: it returns a value and touches nothing
Query(op, value) ==
  /\ lastOp' = op
  /\ returned' = <<value>>
  /\ fired' = FALSE
  /\ changed' = FALSE
  /\ UNCHANGED <<engine, getItemSize, geometry, inertiaDecay, scrollOffset, inertia>>

GetFirstFullyVisibleIndex ==
  /\ engine = "pull"
  /\ Query("getFirstFullyVisibleIndex", getFirstFullyVisibleIndex(scrollOffset, viewportSize))

GetLastFullyVisibleIndex ==
  /\ engine = "pull"
  /\ Query("getLastFullyVisibleIndex", getLastFullyVisibleIndex(scrollOffset, viewportSize))

GetNextPageUpIndex(currentFocusedIndex) ==
  /\ engine = "pull"
  /\ Query("getNextPageUpIndex",
           getNextPageUpIndex(scrollOffset, viewportSize, currentFocusedIndex))

GetNextPageDownIndex(currentFocusedIndex) ==
  /\ engine = "pull"
  /\ Query("getNextPageDownIndex",
           getNextPageDownIndex(scrollOffset, viewportSize, itemCount,
                                currentFocusedIndex))

\* the protected conversions, called directly as the tests call them
GetVelocityPxStep(normalizedDeltaPx) ==
  /\ normalizedDeltaPx \in StepInputs
  /\ Query("getVelocityPxStep", getVelocityPxStep(normalizedDeltaPx))

GetVelocityItemStep(normalizedDelta) ==
  /\ normalizedDelta \in StepInputs
  /\ Query("getVelocityItemStep", getVelocityItemStep(normalizedDelta))

\* the stand-alone function, called with arguments of the caller's own
GetTrackClickItemValues(in) ==
  /\ in \in TrackClickItemInputs
  /\ lastOp' = "getTrackClickItemValues"
  /\ returned' =
       LET r == getTrackClickItemValues(FromInt(in[1]), FromInt(in[2]), FromInt(in[3]),
                                        FromInt(in[4]), FromInt(in[5]), FromInt(in[6]),
                                        FromInt(in[7]))
       IN  <<r.scrollOffset, r.thumbOffset>>
  /\ fired' = FALSE
  /\ changed' = FALSE
  /\ UNCHANGED <<engine, getItemSize, geometry, inertiaDecay, scrollOffset, inertia>>

\* the state one run of a frame callback leaves behind
Ran(r, reaction) ==
  /\ reaction # <<>> => r.fired
  /\ r.inertia.calls <= MaxWheelCalls
  /\ SetInertia(r.inertia)
  /\ Commit("tick", r)

\* the scheduler runs one pending callback
Tick(cb, reaction) ==
  /\ cb \in pending
  /\ Ran(IF engine = "pull"
         THEN step([Inertia EXCEPT !.pending = pending \ {cb}], cb.kind, scrollOffset,
                   viewportSize, contentSize, itemCount, inertiaDecay, reaction)
         ELSE stepNotifyAlways([Inertia EXCEPT !.pending = pending \ {cb}], cb.kind,
                               scrollOffset, viewportSize, contentSize, itemCount,
                               inertiaDecay, reaction),
         reaction)
  /\ UNCHANGED <<engine, getItemSize, geometry, inertiaDecay>>

\* the host measures, assigns and handles pointer and keyboard input
NextHandlers ==
  \/ \E v \in ViewportSizes : SetViewportSize(v)
  \/ \E c \in ContentSizes : SetContentSize(c)
  \/ \E t \in TrackSizes : SetTrackSize(t)
  \/ \E value \in OffsetInputs : SetScrollOffset(value)
  \/ \E ratio \in RatioInputs : SetScrollRatio(ratio)
  \/ \E d \in Deltas : HandleDelta(d)
  \/ \E click \in TrackClicks : HandleTrackClick(click[1], click[2])
  \/ \E direction \in {"up", "down"} : HandlePageScroll(direction)
  \/ \E itemIndex \in ItemIndexes, align \in Alignments : ScrollItemIntoView(itemIndex, align)

\* the host measures and feeds wheel events; the scheduler runs frames
NextInertia ==
  \/ \E v \in ViewportSizes : SetViewportSize(v)
  \/ \E c \in ContentSizes : SetContentSize(c)
  \/ \E t \in TrackSizes : SetTrackSize(t)
  \/ \E delta \in Deltas, deltaMode \in DeltaModes : HandleWheelPx(delta, deltaMode)
  \/ \E delta \in Deltas, deltaMode \in DeltaModes : HandleWheelItems(delta, deltaMode)
  \/ StopInertia
  \/ \E cb \in pending, reaction \in Reactions : Tick(cb, reaction)

\* the host of a list: it measures, positions and asks where focus goes
\* next, whatever item size it has supplied
NextItems ==
  \/ \E v \in ViewportSizes : SetViewportSize(v)
  \/ \E c \in ContentSizes : SetContentSize(c)
  \/ \E value \in OffsetInputs : SetScrollOffset(value)
  \/ \E itemIndex \in ItemIndexes, align \in Alignments : ScrollItemIntoView(itemIndex, align)
  \/ GetFirstFullyVisibleIndex
  \/ GetLastFullyVisibleIndex
  \/ \E f \in FocusIndexes : GetNextPageUpIndex(f)
  \/ \E f \in FocusIndexes : GetNextPageDownIndex(f)

\* a caller of the conversions and of the stand-alone functions, with the
\* geometry it has measured
NextFunctions ==
  \/ \E v \in ViewportSizes : SetViewportSize(v)
  \/ \E c \in ContentSizes : SetContentSize(c)
  \/ \E t \in TrackSizes : SetTrackSize(t)
  \/ \E d \in StepInputs : GetVelocityPxStep(d)
  \/ \E d \in StepInputs : GetVelocityItemStep(d)
  \/ \E in \in TrackClickItemInputs : GetTrackClickItemValues(in)

\* the host scrolls by hand while the inertia of one wheel event (in pixel
\* mode) runs; its observer calls nothing back
NextRunning ==
  \/ \E c \in ContentSizes : SetContentSize(c)
  \/ \E value \in OffsetInputs : SetScrollOffset(value)
  \/ \E ratio \in RatioInputs : SetScrollRatio(ratio)
  \/ \E d \in Deltas : HandleDelta(d)
  \/ \E click \in TrackClicks : HandleTrackClick(click[1], click[2])
  \/ \E direction \in {"up", "down"} : HandlePageScroll(direction)
  \/ \E itemIndex \in ItemIndexes, align \in Alignments : ScrollItemIntoView(itemIndex, align)
  \/ \E delta \in Deltas : wheelCalls = 0 /\ HandleWheelPx(delta, 0)
  \/ \E delta \in Deltas : wheelCalls = 0 /\ HandleWheelItems(delta, 0)
  \/ \E cb \in pending : Tick(cb, <<>>)

Next == NextHandlers \/ NextInertia \/ NextItems \/ NextFunctions \/ NextRunning

Spec == Init /\ [][Next]_vars

SpecHandlers == Init /\ [][NextHandlers]_vars

SpecInertia == Init /\ [][NextInertia]_vars

InitItems == Construct(ItemSizes)

SpecItems == InitItems /\ [][NextItems]_vars

SpecFunctions == InitItems /\ [][NextFunctions]_vars

SpecRunning == Init /\ [][NextRunning]_vars

(***************************************************************************)
(* Properties                                                               *)
(***************************************************************************)
\* the operations that scroll on the user's behalf
ScrollOps == {"handleDelta", "handleTrackClick", "handlePageScroll",
              "scrollItemIntoView", "tick"}

\* the operations that only measure
MeasureOps == {"setViewportSize", "setContentSize", "setTrackSize"}

WithinBounds(o) == Le(Zero, o) /\ Le(o, maxScrollOffset(viewportSize, contentSize))

AtRest == pxVelocity = Zero /\ itemVelocity = Zero

Idle == wheelAnimationFrame = NoFrame /\ AtRest

\* C1: in every reachable state 0 <= scrollOffset <= maxScrollOffset, with
\* maxScrollOffset taken from the current geometry
C1_OffsetWithinBounds == WithinBounds(scrollOffset)

\* C2: whenever no frame is scheduled both velocity accumulators are 0
C2_NoFrameMeansAtRest == wheelAnimationFrame = NoFrame => AtRest

\* C3: at most one frame callback is pending at any time
C3_OneCallbackPending == Cardinality(pending) <= 1

\* C6: a handler call or a tick invokes the observer exactly when it changed
\* scrollOffset
C6_NotifiedIffChanged == lastOp \in ScrollOps => (fired <=> changed)

\* C10: after handleDelta with contentSize > viewportSize and a zero
\* trackToScrollFactor, scrollOffset is a finite number within
\* [0, maxScrollOffset]
C10_ZeroFactorStaysFinite ==
  ( /\ lastOp = "handleDelta"
    /\ isScrollingNeeded(viewportSize, contentSize)
    /\ trackToScrollFactor(viewportSize, contentSize, trackSize) = Zero )
  => (IsFinite(scrollOffset) /\ WithinBounds(scrollOffset))

\* C4: a frame callback that finds a velocity other than 0 (the observer
\* staying passive) leaves it strictly smaller in magnitude, and when the
\* frames have run out (no callback is pending any more) the engine is Idle
C4_DecaysToIdle ==
  /\ [][\A cb \in pending :
          (Tick(cb, <<>>) /\ velocityOf(Inertia, cb.kind) # Zero)
          => IF cb.kind = "px"
             THEN Lt(MathAbs(pxVelocity'), MathAbs(pxVelocity))
             ELSE Lt(MathAbs(itemVelocity'), MathAbs(itemVelocity))]_vars
  /\ [](pending = {} => Idle)

C7_MeasuringNeverNotifies == lastOp \in MeasureOps \cup {"init"} => ~fired

\* a size assignment moved scrollOffset and the observer was not invoked
C7_ReconciledSilently ==
  engine = "field" /\ lastOp \in {"setViewportSize", "setContentSize"} /\ changed /\ ~fired

C9_TrackSizeChangesNothingElse ==
  [][lastOp' = "setTrackSize"
     => /\ scrollOffset' = scrollOffset
        /\ scrollRatio(scrollOffset', viewportSize', contentSize')
             = scrollRatio(scrollOffset, viewportSize, contentSize)
        /\ UNCHANGED <<pxVelocity, itemVelocity, wheelAnimationFrame, pending>>]_vars

\* trackSize was assigned while the engine was scrolled and its inertia running
C9_TrackSizeSetWhileRunning ==
  /\ lastOp = "setTrackSize" /\ trackSize = 16 /\ engine = "field"
  /\ scrollOffset # Zero /\ pxVelocity # Zero /\ wheelAnimationFrame # NoFrame

\* the pointer and keyboard handlers
HandlerOps == {"handleDelta", "handleTrackClick", "handlePageScroll", "scrollItemIntoView"}

\* C11: when contentSize <= viewportSize, handleDelta, handleTrackClick,
\* handlePageScroll and scrollItemIntoView leave scrollOffset as it was and do
\* not invoke the observer
C11_NoScrollNoEffect ==
  (lastOp \in HandlerOps /\ ~isScrollingNeeded(viewportSize, contentSize))
  => (~changed /\ ~fired)

\* the frame of a notch in which the accumulator still holds the whole notch
FirstFrameOfNotch == MathAbs(itemVelocity) = One

\* the offset lies on an item boundary and one more item fits in the
\* direction of the item velocity
RoomForOneItem ==
  /\ Rem(scrollOffset, itemSize) = Zero
  /\ Le(Zero, Add(scrollOffset, Mul(itemVelocity, itemSize)))
  /\ Le(Add(scrollOffset, Mul(itemVelocity, itemSize)),
        maxScrollOffset(viewportSize, contentSize))

\* C12: after a single handleWheelItems notch from Idle (the only wheel call
\* of the behaviour), the frames that run until the engine is Idle again move
\* scrollOffset by exactly one itemSize in the direction of the notch: the
\* first frame moves one item when there is room, no later frame moves at all
C12_OneNotchOneItem ==
  [][\A cb \in pending :
       (wheelCalls = 1 /\ cb.kind = "item" /\ Tick(cb, <<>>))
       => IF FirstFrameOfNotch
          THEN RoomForOneItem
               => scrollOffset' = Add(scrollOffset, Mul(itemVelocity, itemSize))
          ELSE scrollOffset' = scrollOffset]_vars

\* C13: a callback the scheduler still holds after stopInertia, whose handle
\* is not the stored one, is a no-op when it runs: scrollOffset is unchanged,
\* the observer is not invoked and no frame is scheduled by it, also when a
\* wheel handler has started a new loop since
C13_StaleCallbackIsNoOp ==
  [][\A cb \in pending, reaction \in Reactions :
       (cb.h # wheelAnimationFrame /\ Tick(cb, reaction))
       => /\ scrollOffset' = scrollOffset
          /\ ~fired'
          /\ wheelAnimationFrame' = wheelAnimationFrame
          /\ pending' = pending \ {cb}]_vars

\* clamp(x, lo, hi)
Clamp(x, lo, hi) == MathMax(lo, MathMin(x, hi))

\* C14: assigning scrollRatio = r while contentSize > viewportSize makes
\* scrollRatio read clamp(r, 0, 1) and scrollOffset equal
\* clamp(r, 0, 1) * maxScrollOffset; while contentSize <= viewportSize it
\* makes scrollOffset 0 and the ratio read 0
C14_RatioRoundTrip ==
  [][\A r \in RatioInputs :
       SetScrollRatio(r)
       => IF contentSize > viewportSize
          THEN /\ scrollRatio(scrollOffset', viewportSize, contentSize)
                    = Clamp(r, Zero, One)
               /\ scrollOffset' = Mul(Clamp(r, Zero, One),
                                      maxScrollOffset(viewportSize, contentSize))
          ELSE /\ scrollOffset' = Zero
               /\ scrollRatio(scrollOffset', viewportSize, contentSize) = Zero]_vars

\* a ratio assignment moved scrollOffset to the middle of the range
C14_RatioAssignedMidway ==
  /\ lastOp = "setScrollRatio" /\ changed
  /\ scrollRatio(scrollOffset, viewportSize, contentSize) = Num(1, 2)

C17_PageScrollMovesOneViewport ==
  [][\A direction \in {"up", "down"} :
       (HandlePageScroll(direction) /\ contentSize > viewportSize)
       => /\ scrollOffset' =
               Clamp(IF direction = "down"
                     THEN Add(scrollOffset, FromInt(viewportSize))
                     ELSE Sub(scrollOffset, FromInt(viewportSize)),
                     Zero, maxScrollOffset(viewportSize, contentSize))
          /\ (direction = "up" /\ scrollOffset = Zero) => scrollOffset' = Zero
          /\ (direction = "down"
              /\ scrollOffset = maxScrollOffset(viewportSize, contentSize))
             => scrollOffset' = maxScrollOffset(viewportSize, contentSize)]_vars

\* paging by a viewport of 2 reached the end of the scrollable range
C17_PagedDownToTheEnd ==
  /\ lastOp = "handlePageScroll" /\ changed /\ viewportSize = 2
  /\ scrollOffset = maxScrollOffset(viewportSize, contentSize)

\* the offset scrollItemIntoView(itemIndex, align) aims at before clamping
ItemTarget(itemIndex, align) ==
  LET itemTop == Mul(FromInt(itemIndex), itemSize)
      itemBottom == Add(itemTop, itemSize)
  IN  CASE align = "start" -> itemTop
        [] align = "end" -> Sub(itemBottom, FromInt(viewportSize))
        [] align = "center" ->
             Sub(itemTop, Div(Sub(FromInt(viewportSize), itemSize), FromInt(2)))
        [] OTHER ->
             IF Lt(itemTop, scrollOffset) THEN itemTop
             ELSE IF Gt(itemBottom, Add(scrollOffset, FromInt(viewportSize)))
                  THEN Sub(itemBottom, FromInt(viewportSize))
             ELSE scrollOffset

\* C15: scrollItemIntoView(index, align) with contentSize > viewportSize sets
\* scrollOffset to clamp(target, 0, maxScrollOffset), the target being the
\* item top for start, item bottom - viewportSize for end, item top -
\* (viewportSize - itemSize) / 2 for center and, for nearest, the item top if
\* it lies above the viewport top, else item bottom - viewportSize if the item
\* bottom lies below the viewport bottom, else the current offset
C15_ItemScrolledIntoView ==
  [][\A itemIndex \in ItemIndexes, align \in Alignments :
       (ScrollItemIntoView(itemIndex, align) /\ contentSize > viewportSize)
       => scrollOffset' = Clamp(ItemTarget(itemIndex, align), Zero,
                                maxScrollOffset(viewportSize, contentSize))]_vars

\* an item of size 1 was scrolled into a viewport of 2 and the offset it asked
\* for was clamped to the end of the range
C15_ScrolledToClampedEnd ==
  /\ lastOp = "scrollItemIntoView" /\ changed /\ getItemSize = <<>> /\ viewportSize = 2
  /\ scrollOffset = maxScrollOffset(viewportSize, contentSize)

\* C18: with first / last what getFirstFullyVisibleIndex /
\* getLastFullyVisibleIndex return and visibleCount = max(1, last - first + 1),
\* getNextPageUpIndex(f) returns first if f > first and
\* max(0, first - visibleCount + 1) otherwise, getNextPageDownIndex(f) returns
\* last if f < last and min(itemCount - 1, last + visibleCount - 1) otherwise;
\* neither changes scrollOffset nor invokes the observer
C18_PagingIndexes ==
  [][LET first == getFirstFullyVisibleIndex(scrollOffset, viewportSize)
         last == getLastFullyVisibleIndex(scrollOffset, viewportSize)
         visibleCount == MathMax(One, Add(Sub(last, first), One))
     IN  \A f \in FocusIndexes :
           /\ GetNextPageUpIndex(f)
              => /\ returned' = <<IF Gt(FromInt(f), first) THEN first
                                  ELSE MathMax(Zero, Add(Sub(first, visibleCount), One))>>
                 /\ scrollOffset' = scrollOffset /\ ~fired'
           /\ GetNextPageDownIndex(f)
              => /\ returned' = <<IF Lt(FromInt(f), last) THEN last
                                  ELSE MathMin(Sub(itemCount, One),
                                               Sub(Add(last, visibleCount), One))>>
                 /\ scrollOffset' = scrollOffset /\ ~fired']_vars

\* with items 3 and 4 of size 1 filling the viewport, a page up from the top
\* item answered 2: the old top item becomes the bottom one
C18_PagedUpFromTopItem ==
  /\ lastOp = "getNextPageUpIndex" /\ returned = <<FromInt(2)>>
  /\ getItemSize = <<>> /\ viewportSize = 2 /\ scrollOffset = FromInt(3)

\* C19: the engine never divides by an item size of 0: whatever the host
\* supplies (nothing, 0, a positive size), the index a query returns and the
\* offset an item positioning commits are finite numbers, never Infinity or NaN
C19_ItemSizeNeverZeroDivisor ==
  /\ returned # <<>> => IsFinite(returned[1])
  /\ IsFinite(scrollOffset)

\* a wheel handler scheduled exactly one frame if none was scheduled and
\* nothing otherwise
ScheduledAtMostOnce ==
  IF wheelAnimationFrame = NoFrame
  THEN /\ wheelAnimationFrame' # NoFrame
       /\ pending \subseteq pending'
       /\ Cardinality(pending' \ pending) = 1
  ELSE /\ wheelAnimationFrame' = wheelAnimationFrame
       /\ pending' = pending

\* C20: handleWheelPx / handleWheelItems add the computed step to the
\* accumulator of their own domain, leave the other accumulator and
\* scrollOffset as they were and do not invoke the observer; they schedule
\* exactly one frame if none is scheduled and none if one is
C20_WheelAccumulatesOnly ==
  [][\A delta \in Deltas, deltaMode \in DeltaModes :
       /\ HandleWheelPx(delta, deltaMode)
          => /\ pxVelocity' =
                  Add(pxVelocity,
                      getVelocityPxStep(getWheelPxDelta(delta, deltaMode, viewportSize)))
             /\ itemVelocity' = itemVelocity
             /\ scrollOffset' = scrollOffset /\ ~fired'
             /\ ScheduledAtMostOnce
       /\ HandleWheelItems(delta, deltaMode)
          => /\ itemVelocity' =
                  Add(itemVelocity,
                      getVelocityItemStep(getWheelItemDelta(delta, deltaMode, viewportSize)))
             /\ pxVelocity' = pxVelocity
             /\ scrollOffset' = scrollOffset /\ ~fired'
             /\ ScheduledAtMostOnce]_vars

\* a second handleWheelPx found the loop of the first running and added its
\* step to the velocity that loop decays
C20_SecondNotchAccumulated ==
  /\ lastOp = "handleWheelPx" /\ wheelCalls = 2 /\ Cardinality(pending) = 1
  /\ wheelAnimationFrame # NoFrame /\ Gt(pxVelocity, One)

\* the magnitude of a step: |d| raised to lo and cut to hi
StepMagnitude(d, lo, hi) == MathMin(MathMax(MathAbs(d), lo), hi)

\* C21: the velocity step of a normalized delta d is 0 when d = 0 and
\* otherwise has the sign of d and the magnitude min(max(|d|, minStep),
\* maxStep) of its domain, except that in the item domain |d| = 1 gives
\* exactly +1 or -1 whatever the item bounds are.
C21_VelocityStepClamped ==
  [][\A d \in StepInputs :
       /\ GetVelocityPxStep(d) =>
            returned' = <<IF d = Zero THEN Zero
                          ELSE Mul(MathSign(d),
                                   StepMagnitude(d, Props.minVelocityPxStep,
                                                 Props.maxVelocityPxStep))>>
       /\ GetVelocityItemStep(d) =>
            returned' = <<IF d = Zero THEN Zero
                          ELSE IF MathAbs(d) = One THEN MathSign(d)
                          ELSE Mul(MathSign(d),
                                   StepMagnitude(d, Props.minVelocityItemStep,
                                                 Props.maxVelocityItemStep))>>]_vars

\* one unit backwards gave a step of -1, below the item minimum
C21_UnitStepBelowMinimum ==
  /\ lastOp = "getVelocityItemStep"
  /\ returned = <<FromInt(-1)>>
  /\ Lt(One, Props.minVelocityItemStep)

\* the callback `cb` has been replaced by a new px callback whose handle is
\* the stored one
RescheduledPx ==
  /\ wheelAnimationFrame' # NoFrame
  /\ [h |-> wheelAnimationFrame', kind |-> "px"] \in pending'

\* C22: a pixel-domain tick with |pxVelocity| >= 0.5 commits scrollOffset'
\* = clamp(scrollOffset + pxVelocity, 0, maxScrollOffset), sets pxVelocity'
\* = pxVelocity * inertiaDecay and reschedules; a tick with |pxVelocity| <
\* 0.5 sets pxVelocity to 0, leaves scrollOffset unchanged and does not
\* reschedule.  (The observer is one that calls nothing back.)
C22_PxTick ==
  [][\A cb \in pending :
       (cb.kind = "px" /\ Tick(cb, <<>>)) =>
         IF Ge(MathAbs(pxVelocity), Num(1, 2))
         THEN /\ scrollOffset' = Clamp(Add(scrollOffset, pxVelocity), Zero,
                                       maxScrollOffset(viewportSize, contentSize))
              /\ pxVelocity' = Mul(pxVelocity, inertiaDecay)
              /\ RescheduledPx
         ELSE /\ pxVelocity' = Zero
              /\ scrollOffset' = scrollOffset
              /\ wheelAnimationFrame' = NoFrame
              /\ pending' = pending \ {cb}]_vars

\* after one wheel event a tick has moved the offset and left the velocity
\* decayed from 1 to 1/2, with the next frame requested
C22_TickedOnceAndDecayed ==
  /\ lastOp = "tick"
  /\ changed
  /\ wheelCalls = 1
  /\ pxVelocity = Num(1, 2)
  /\ itemVelocity = Zero
  /\ wheelAnimationFrame # NoFrame

\* contentSize = itemCount * itemSize
WholeItems == FromInt(contentSize) = Mul(itemCount, itemSize)

\* x lies on an item boundary
OnItemBoundary(x) == Rem(x, itemSize) = Zero

CandidateIndexes == (-2) .. 12

\* the items that lie inside [scrollOffset, scrollOffset + viewportSize]
FullyVisible ==
  {i \in CandidateIndexes : isItemVisible(scrollOffset, viewportSize, i, TRUE)}

C25_TrackClickSnapsToItem ==
  [][\A in \in TrackClickItemInputs :
       (in[6] > 0 /\ GetTrackClickItemValues(in)) =>
         LET V == FromInt(in[3])
             C == FromInt(in[4])
             size == FromInt(in[6])
             top == Mul(MathMax(Zero, Sub(FromInt(in[7]), MathCeil(Div(V, size)))), size)
         IN  /\ IsFinite(returned'[1])
             /\ Rem(returned'[1], size) = Zero
             /\ Le(Zero, returned'[1]) /\ Le(returned'[1], top)
             /\ IsFinite(returned'[2])
             /\ Le(Zero, returned'[2])
             /\ Le(returned'[2], getThumbTravelSize(V, C, FromInt(in[5])))
             /\ in[4] <= in[3] => returned' = <<Zero, Zero>>]_vars

\* C26: for every geometry with viewportSize, contentSize, trackSize >= 0
\* and every scrollOffset in [0, maxScrollOffset], 0 <= thumbOffset <=
\* thumbTravelSize <= trackSize; thumbOffset is 0 at scrollOffset = 0 and
\* equals thumbTravelSize at scrollOffset = maxScrollOffset when contentSize
\* > viewportSize, and is 0 when contentSize <= viewportSize.
C26_ThumbStaysOnTrack ==
  WithinBounds(scrollOffset) =>
    /\ Le(Zero, thumbOffset(scrollOffset, viewportSize, contentSize, trackSize))
    /\ Le(thumbOffset(scrollOffset, viewportSize, contentSize, trackSize),
          thumbTravelSize(viewportSize, contentSize, trackSize))
    /\ Le(thumbTravelSize(viewportSize, contentSize, trackSize), FromInt(trackSize))
    /\ scrollOffset = Zero =>
         thumbOffset(scrollOffset, viewportSize, contentSize, trackSize) = Zero
    /\ (contentSize > viewportSize
          /\ scrollOffset = maxScrollOffset(viewportSize, contentSize)) =>
         thumbOffset(scrollOffset, viewportSize, contentSize, trackSize)
           = thumbTravelSize(viewportSize, contentSize, trackSize)
    /\ contentSize <= viewportSize =>
         thumbOffset(scrollOffset, viewportSize, contentSize, trackSize) = Zero

\* paged down to the end of scrollable content: the thumb has travelled the
\* 4 px the 12 px thumb leaves free on a track of 16
C26_ThumbAtEndOfTrack ==
  /\ lastOp = "handlePageScroll"
  /\ contentSize > viewportSize
  /\ scrollOffset = maxScrollOffset(viewportSize, contentSize)
  /\ Gt(scrollOffset, Zero)
  /\ trackSize = 16
  /\ thumbOffset(scrollOffset, viewportSize, contentSize, trackSize) = FromInt(4)

\* C27: after scrollItemIntoView(i, align), for any align, any index 0 <= i
\* < itemCount and a geometry with contentSize = itemCount * itemSize >
\* viewportSize >= itemSize and scrollOffset initially in [0,
\* maxScrollOffset], item i is fully visible.
C27_ScrolledItemIsFullyVisible ==
  [][\A itemIndex \in ItemIndexes, align \in Alignments :
       ( /\ 0 <= itemIndex
         /\ Lt(FromInt(itemIndex), itemCount)
         /\ WholeItems
         /\ contentSize > viewportSize
         /\ Ge(FromInt(viewportSize), itemSize)
         /\ WithinBounds(scrollOffset)
         /\ ScrollItemIntoView(itemIndex, align) ) =>
         isItemVisible(scrollOffset', viewportSize, itemIndex, TRUE)]_vars

\* item 3 of four was below a viewport of one item and a half; "nearest"
\* has put its bottom edge on the viewport's bottom edge, at the maximum
C27_LastItemSnappedToBottom ==
  /\ lastOp = "scrollItemIntoView"
  /\ changed
  /\ getItemSize = <<Props.itemSize>>
  /\ viewportSize = 3
  /\ contentSize = 8
  /\ scrollOffset = FromInt(5)
  /\ isItemVisible(scrollOffset, viewportSize, 3, TRUE)
  /\ ~isItemVisible(scrollOffset, viewportSize, 2, TRUE)

\* an observer that answers a notification by calling stopInertia()
StopsWhenNotified == <<[op |-> "stopInertia", delta |-> 0, deltaMode |-> 0]>>

\* C28: stopInertia()/dispose() is effective when called reentrantly from
\* the observer callback during an inertia tick: once that tick returns, no
\* frame is scheduled and both velocities are 0.
C28_ReentrantStopIsEffective ==
  [][\A cb \in pending :
       Tick(cb, StopsWhenNotified) =>
         /\ wheelAnimationFrame' = NoFrame
         /\ pending' = {}
         /\ pxVelocity' = Zero
         /\ itemVelocity' = Zero]_vars

\* what the host does to the offset by hand
ManualOps == HandlerOps \cup {"setScrollOffset", "setScrollRatio"}

\* C29: handleDelta, handleTrackClick, handlePageScroll, scrollItemIntoView
\* and scrollRatio/scrollOffset assignment never change pxVelocity,
\* itemVelocity or the scheduled frame; a running inertia loop is not
\* stopped by them and its next tick steps from the offset they committed:
\* a px tick to clamp(that offset + pxVelocity), an item tick to the item
\* snap of that offset.
C29_ManualScrollLeavesInertiaAlone ==
  [][/\ lastOp' \in ManualOps =>
          UNCHANGED <<pxVelocity, itemVelocity, wheelAnimationFrame, pending>>
     /\ \A cb \in pending :
          (lastOp \in ManualOps /\ Tick(cb, <<>>)) =>
            /\ (cb.kind = "px" /\ Ge(MathAbs(pxVelocity), threshold("px"))) =>
                 /\ scrollOffset' = Clamp(Add(scrollOffset, pxVelocity), Zero,
                                          maxScrollOffset(viewportSize, contentSize))
                 /\ wheelAnimationFrame' # NoFrame
            /\ (cb.kind = "item" /\ Ge(MathAbs(itemVelocity), threshold("item"))) =>
                 /\ scrollOffset' =
                      getVelocityItemValues(scrollOffset, itemVelocity, viewportSize,
                                            contentSize, itemCount,
                                            inertiaDecay).scrollOffset
                 /\ wheelAnimationFrame' # NoFrame]_vars

\* a px loop started at velocity 1 and ran one frame; the host then
\* assigned offset -1; the second frame has stepped from -1 to the clamped
\* 0 and the loop is still scheduled
C29_TickedOnFromAssignedOffset ==
  /\ lastOp = "tick"
  /\ changed
  /\ scrollOffset = Zero
  /\ pxVelocity = Num(1, 4)
  /\ contentSize = 8
  /\ wheelAnimationFrame # NoFrame

\* C30: paging moves focus in the named direction and stays in range: for
\* contentSize = itemCount * itemSize, scrollOffset in [0, maxScrollOffset],
\* viewportSize >= itemSize and a focused index f with 0 <= f < itemCount,
\* getNextPageUpIndex(f) is in [0, itemCount - 1] and <= f, and
\* getNextPageDownIndex(f) is in [0, itemCount - 1] and >= f.
C30_PagingKeepsDirectionAndRange ==
  [][\A f \in FocusIndexes :
       ( /\ WholeItems
         /\ WithinBounds(scrollOffset)
         /\ Ge(FromInt(viewportSize), itemSize)
         /\ 0 <= f
         /\ Lt(FromInt(f), itemCount) ) =>
         /\ GetNextPageUpIndex(f) =>
              /\ Le(Zero, returned'[1])
              /\ Le(returned'[1], Sub(itemCount, One))
              /\ Le(returned'[1], FromInt(f))
         /\ GetNextPageDownIndex(f) =>
              /\ Le(Zero, returned'[1])
              /\ Le(returned'[1], Sub(itemCount, One))
              /\ Ge(returned'[1], FromInt(f))]_vars
====
